---- MODULE Spec2Model ----
(***************************************************************************)
(* The analysis session of frontend/src/app/analyze/page.js (AnalyzePage): *)
(* the React state of the component, the requests and timers its handlers  *)
(* leave in flight, and one action per handler, timer callback and backend *)
(* response.  A handler runs to its first await in one step (React renders *)
(* between events, so a handler reads the state of the last render); what  *)
(* follows an await is the step of the response that resumes it.           *)
(*                                                                         *)
(* Math.random() * k is a real in [0, k); the model draws the integers     *)
(* 0 .. k-1, so scanProgress is an integer and Math.round is exact on it.  *)
(*                                                                         *)
(* The environment is free in three independent ways: what the user leaves *)
(* in the input fields of the other tabs, what the ticks draw, and which   *)
(* side effects (company verification, feedback) are started.  A behaviour *)
(* explores one of them in full (focus) and the other two at               *)
(* representative values; every behaviour is a behaviour of the program.   *)
(* The side effects are explored in two halves: those that annotate the    *)
(* verdict ("effects": company verification, feedback) and those that only *)
(* notify ("notices": the history refresh answered, flagging).  Outside    *)
(* "notices" a history refresh is issued and never answered.  Manual       *)
(* verifications of different companies that overlap are explored on their *)
(* own ("overlaps"), where the order of issue is recorded in verifyLog.    *)
(***************************************************************************)
EXTENDS Integers, Sequences, FiniteSets, TLC

VARIABLES
    token,          \* useAuth().token: "null" or a credential
    inputMode,      \* 'text' | 'url' | 'csv' | 'image'
    jobText,        \* the textarea's value, a sequence of characters
    urlInput,       \* the URL field's value, a sequence of characters
    loading,        \* the single-flight flag
    phase,          \* 'input' | 'scanning' | 'verdict' | 'bulk-results'
    result,         \* None or the verdict payload
    scanProgress,   \* the simulated progress
    feedbackGiven,  \* "null" | 'agree' | 'disagree'
    companyVerify,  \* None or the verify-company payload
    companyLoading, \* the company-verification busy flag
    csvFile,        \* "null" or the selected CSV file
    bulkResults,    \* None or the batch payload
    imageFile,      \* "null" or the selected image file
    imagePreview,   \* "null" or the data URL of the selected image
    readers,        \* FileReader loads of a selected image not yet delivered
    calls,          \* the analyze/analyzeBulk/analyzeImage invocations not yet finished
    timers,         \* the active setInterval timers (scanInterval of each invocation)
    verifyReqs,     \* verify-company requests in flight, in issue order
    feedbackReqs,   \* submit-feedback requests in flight, in issue order
    verifyLog,      \* the verify-company request issued last, and the submission
                    \* (0 if none) on whose verdict a verification failed or a
                    \* response to an earlier verdict's request arrived
    myHistory,      \* the signed-in user's recent analyses
    historyReqs,    \* my-predictions requests in flight that the backend will answer
    flagReqs,       \* flag requests in flight, in issue order
    downloadReqs,   \* predict-bulk/download requests in flight
    submits,        \* accepted submissions so far (names invocations and predictions)
    focus,          \* which freedom of the environment the behaviour explores in full
    ev,             \* what the last step was
    sent,           \* the requests the last step issued, in order
    got,            \* the failure the last step handled, None if it handled none
    alertMsg        \* the alert() the last step showed, "null" if none

vars == <<token, inputMode, jobText, urlInput, loading, phase, result, scanProgress,
          feedbackGiven, companyVerify, companyLoading, csvFile, bulkResults,
          imageFile, imagePreview, readers, calls, timers, verifyReqs, feedbackReqs, verifyLog, myHistory,
          historyReqs, flagReqs, downloadReqs, submits, focus, ev, sent, got, alertMsg>>

-----------------------------------------------------------------------------
(* Bounds of the model *)

\* accepted submissions in one behaviour
MaxSubmits == 2
\* user-started side-effect requests (verify-company, feedback) in flight at once
MaxPending == 2

-----------------------------------------------------------------------------
(* Program constants *)

\* the tick's threshold and the value it returns once reached
ProgressCap == 95
\* the value set on a successful response
ProgressDone == 100
\* Math.random() * 12 in analyze
StepSingle == 12
\* Math.random() * 8 in analyzeBulk
StepBulk == 8
\* Math.random() * 10 in analyzeImage
StepImage == 10

-----------------------------------------------------------------------------
(* Faulty variants of the handlers, against which the properties are tried *)

\* a guard that lets nothing through
NeverAccepts == FALSE

\* a view that never leaves the screen
AlwaysRendered == TRUE

\* a guard that lets every input through
AcceptsAnything(input) == TRUE

\* a batch taken for a single item
NeverBulk(c) == FALSE

\* a response taken for a success whatever came back
AnyResponse(r) == TRUE

\* a completion that verifies no company
NeverVerifies(c) == FALSE

\* a completion that refreshes no history
NoRefresh(c) == <<>>

\* a catch that shows its own message whatever the backend said
AlwaysFallback(f, fallback) == fallback

\* a catch that forgets clearInterval
LeftRunning(c) == timers

\* a catch that forgets setLoading(false) and setPhase('input')
StayLocked == UNCHANGED <<loading, phase>>

\* a catch that forgets setLoading(false)
PhaseOnly == phase' = "input" /\ UNCHANGED loading

\* a reset that only changes the view
KeepPayload ==
    /\ phase' = "input"
    /\ UNCHANGED <<result, bulkResults, scanProgress, feedbackGiven, companyVerify>>

-----------------------------------------------------------------------------
(* Values *)

Null == "null"
None == [none |-> TRUE]

Modes == {"text", "url", "csv", "image"}

\* What the user can have typed: nothing, a blank, and text with a leading blank.
Typeable == {<<>>, <<" ">>, <<" ", "a">>}

IsSpace(ch) == ch = " "

RECURSIVE TrimStart(_)
TrimStart(s) ==
    IF s = <<>> THEN <<>>
    ELSE IF IsSpace(Head(s)) THEN TrimStart(Tail(s)) ELSE s

RECURSIVE TrimEnd(_)
TrimEnd(s) ==
    IF s = <<>> THEN <<>>
    ELSE IF IsSpace(s[Len(s)]) THEN TrimEnd(SubSeq(s, 1, Len(s) - 1)) ELSE s

\* String.prototype.trim
Trim(s) == TrimEnd(TrimStart(s))

\* the bar's width and the percentage shown while scanning
Displayed(p) == IF p < 100 THEN p ELSE 100

\* A successful single-item payload: prediction_id 0 and scraped_company ""
\* stand for the field being absent (both are falsy in the code's tests).
Verdicts(id) ==
    [prediction_id : {0, id}, prediction : {"Fake", "Real"}, scraped_company : {"", "acme"}]

\* The batch endpoint is served by the backend, which the page only calls.
\* Its report is modelled from the documented contract of a report: every row
\* is counted, a row is Real, Fake or Skipped, and fraud_rate is the share of
\* Fake rows in percent, rounded to one decimal place.  fraud_rate is kept in
\* tenths of a percent (230 stands for 23.0).

\* a batch of a hundred rows, 23 of them Fake
Batch100 == [i \in 1..100 |-> IF i <= 23 THEN "Fake" ELSE "Real"]

\* the rows of the batches analysed
Batches == { <<"Skipped">>, <<"Fake", "Skipped", "Fake">>, Batch100 }

RECURSIVE Count(_, _)
\* the number of rows whose prediction is v
Count(rows, v) ==
    IF rows = <<>> THEN 0
    ELSE (IF Head(rows) = v THEN 1 ELSE 0) + Count(Tail(rows), v)

\* a rate cut off after the first decimal place
Truncated(fake, total) == IF total = 0 THEN 0 ELSE (1000 * fake) \div total

\* round(total_fake / total_analyzed * 100, 1), in tenths of a percent
FraudRate(fake, total) ==
    IF total = 0 THEN 0 ELSE (2000 * fake + total) \div (2 * total)

\* a report that leaves the skipped rows out of its total
ClassifiedOnly(rows) ==
    [total_analyzed |-> Count(rows, "Real") + Count(rows, "Fake"),
     total_real |-> Count(rows, "Real"),
     total_fake |-> Count(rows, "Fake"),
     fraud_rate |-> FraudRate(Count(rows, "Fake"), Len(rows)),
     results |-> rows]

\* the report of a batch
Aggregate(rows) ==
    [total_analyzed |-> Len(rows),
     total_real |-> Count(rows, "Real"),
     total_fake |-> Count(rows, "Fake"),
     fraud_rate |-> FraudRate(Count(rows, "Fake"), Len(rows)),
     results |-> rows]

\* A successful batch payload (total_analyzed, total_real, total_fake,
\* fraud_rate, rows): const data = await res.json()
BulkPayloads == { Aggregate(rows) : rows \in Batches }

\* How a classification request can fail: a non-success response with or
\* without a detail message, or fetch()/res.json() throwing.
Failures == { [kind |-> "status", detail |-> "bad input"],
              [kind |-> "status", detail |-> ""],
              [kind |-> "throw", detail |-> "Failed to fetch"] }

\* data.detail || fallback, or err.message of what fetch threw
FailureMessage(f, fallback) ==
    IF f.kind = "status" THEN (IF f.detail # "" THEN f.detail ELSE fallback)
    ELSE f.detail

IsBulk(c) == c.op = "predict-bulk"

Fallback(c) ==
    IF IsBulk(c) THEN "Bulk analysis failed"
    ELSE IF c.op = "predict-image" THEN "Image analysis failed"
    ELSE "Analysis failed"

Request(op, body, auth) == [op |-> op, body |-> body, auth |-> auth]

\* the requests to one endpoint among those a step issued
To(op, reqs) == SelectSeq(reqs, LAMBDA q : q.op = op)

\* fetchMyHistory to its fetch: the request it issues
fetchMyHistory == <<Request("my-predictions", Null, token)>>

\* how many of the history requests just issued the backend will answer
Answered(reqs) == IF focus = "notices" THEN Len(reqs) ELSE 0

-----------------------------------------------------------------------------
(* Initial state: useState's initial values and the effect run at mount *)

Init ==
    /\ token \in {Null, "tok"}
    /\ inputMode = "text"
    /\ jobText = <<>>
    /\ urlInput = <<>>
    /\ loading = FALSE
    /\ phase = "input"
    /\ result = None
    /\ scanProgress = 0
    /\ feedbackGiven = Null
    /\ companyVerify = None
    /\ companyLoading = FALSE
    /\ csvFile = Null
    /\ bulkResults = None
    /\ imageFile = Null
    /\ imagePreview = Null
    /\ readers = 0
    /\ calls = {}
    /\ timers = {}
    /\ verifyReqs = <<>>
    /\ feedbackReqs = <<>>
    /\ verifyLog = [last |-> None, spoiled |-> 0]
    /\ myHistory = <<>>
    /\ flagReqs = <<>>
    /\ downloadReqs = 0
    /\ submits = 0
    /\ focus \in {"inputs", "ticks", "effects", "overlaps", "notices"}
    /\ ev = "init"
    /\ got = None
    \* useEffect(() => { if (token) fetchMyHistory(); }, [token]) at mount
    /\ sent = IF token # Null THEN fetchMyHistory ELSE <<>>
    /\ historyReqs = Answered(sent)
    /\ alertMsg = Null

-----------------------------------------------------------------------------
(* What is rendered: each view's condition in the component's JSX *)

InputView == phase = "input"

ScanningView == phase = "scanning"

VerdictView == phase = "verdict" /\ result # None

BulkView == phase = "bulk-results" /\ bulkResults # None

\* a table that lists the fraudulent rows only
FraudRowsOnly(report) == SelectSeq(report.results, LAMBDA row : row = "Fake")

\* bulkResults.results.map((row, i) => ...): the rows of the table, in order
RowsShown(report) == report.results

\* disabled={!jobText.trim() || loading}
RunAnalysisDisabled == Trim(jobText) = <<>> \/ loading

\* disabled={!urlInput.trim() || loading}
ScanUrlDisabled == Trim(urlInput) = <<>> \/ loading

\* {csvFile && <button disabled={loading || !token}>}
BulkButtonEnabled == csvFile # Null /\ ~(loading \/ token = Null)

\* {imageFile && <button disabled={loading}>}
ImageButtonEnabled == imageFile # Null /\ ~loading

-----------------------------------------------------------------------------
(* Editing the pending input *)

\* a step that issues no request and shows no alert
Quiet == sent' = <<>> /\ alertMsg' = Null /\ got' = None

sessionVars == <<loading, phase, result, scanProgress, feedbackGiven, companyVerify,
                 bulkResults, calls, timers>>

inputVars == <<inputMode, jobText, urlInput, csvFile, imageFile>>

previewVars == <<imagePreview, readers>>

sideVars == <<companyLoading, verifyReqs, feedbackReqs, verifyLog>>

boundVars == <<submits, focus>>

noticeVars == <<myHistory, historyReqs, flagReqs, downloadReqs>>

NothingPending == jobText = <<>> /\ urlInput = <<>> /\ csvFile = Null /\ imageFile = Null

\* onClick={() => setInputMode(tab.key)}.  Unless the behaviour explores the
\* inputs, the user changes tab only while no field holds anything.
SelectTab(m) ==
    /\ InputView
    /\ focus = "inputs" \/ NothingPending
    /\ inputMode' = m
    /\ ev' = "other"
    /\ Quiet
    /\ UNCHANGED <<token, jobText, urlInput, csvFile, imageFile, imagePreview, readers,
                   sessionVars, sideVars, boundVars, noticeVars>>

\* the textarea's onChange and the sample buttons
TypeText(s) ==
    /\ InputView /\ inputMode = "text"
    /\ jobText' = s
    /\ ev' = "other"
    /\ Quiet
    /\ UNCHANGED <<token, inputMode, urlInput, csvFile, imageFile, imagePreview, readers,
                   sessionVars, sideVars, boundVars, noticeVars>>

\* the URL field's onChange
TypeUrl(s) ==
    /\ InputView /\ inputMode = "url"
    /\ urlInput' = s
    /\ ev' = "other"
    /\ Quiet
    /\ UNCHANGED <<token, inputMode, jobText, csvFile, imageFile, imagePreview, readers,
                   sessionVars, sideVars, boundVars, noticeVars>>

\* csvInput's onChange and the drop zone's onDrop
SelectCsv ==
    /\ InputView /\ inputMode = "csv"
    /\ csvFile' = "jobs.csv"
    /\ ev' = "other"
    /\ Quiet
    /\ UNCHANGED <<token, inputMode, jobText, urlInput, imageFile, imagePreview, readers,
                   sessionVars, sideVars, boundVars, noticeVars>>

\* imageInput's onChange: setImageFile(f); reader.readAsDataURL(f).  The read
\* is delivered by a later event (reader.onload); unless the behaviour
\* explores the inputs, it is delivered before the user does anything else,
\* and the user picks another image only once the last one has been read.
SelectImage ==
    /\ InputView /\ inputMode = "image"
    /\ imageFile' = "shot.png"
    /\ IF focus = "inputs"
       THEN readers = 0 /\ readers' = readers + 1 /\ UNCHANGED imagePreview
       ELSE imagePreview' = "shot.png" /\ UNCHANGED readers
    /\ ev' = "other"
    /\ Quiet
    /\ UNCHANGED <<token, inputMode, jobText, urlInput, csvFile, sessionVars, sideVars,
                   boundVars, noticeVars>>

\* reader.onload = (ev) => setImagePreview(ev.target.result)
ReaderLoad ==
    /\ readers > 0
    /\ readers' = readers - 1
    /\ imagePreview' = "shot.png"
    /\ ev' = "preview"
    /\ Quiet
    /\ UNCHANGED <<token, inputMode, jobText, urlInput, csvFile, imageFile, sessionVars,
                   sideVars, boundVars, noticeVars>>

-----------------------------------------------------------------------------
(* The submission coordinator *)

\* a handler that returns at its guard: nothing is set
Rejected ==
    /\ ev' = "reject"
    /\ Quiet
    /\ UNCHANGED <<token, inputVars, previewVars, sessionVars, sideVars, boundVars, noticeVars>>

\* setResult(null); setFeedbackGiven(null); setCompanyVerify(null) of analyze and
\* analyzeImage; setBulkResults(null) of analyzeBulk
ClearOnStart(single) ==
    IF single
    THEN /\ result' = None /\ feedbackGiven' = Null /\ companyVerify' = None
         /\ UNCHANGED bulkResults
    ELSE /\ bulkResults' = None
         /\ UNCHANGED <<result, feedbackGiven, companyVerify>>

\* a submission that resumes from the progress it finds
LeftProgress == scanProgress

\* setScanProgress(0) of a submission
ProgressStart == 0

\* setLoading(true); setPhase('scanning'); setScanProgress(0); the clears of the
\* mode; setInterval; fetch.  In the behaviours that explore overlapping
\* verifications the user submits again once the verifications are answered.
Start(op, body, auth, step, single) ==
    /\ submits < MaxSubmits
    /\ focus = "overlaps" => verifyReqs = <<>>
    /\ submits' = submits + 1
    /\ loading' = TRUE
    /\ phase' = "scanning"
    /\ scanProgress' = ProgressStart
    /\ ClearOnStart(single)
    /\ timers' = timers \cup {[id |-> submits + 1, step |-> step]}
    /\ calls' = calls \cup {[id |-> submits + 1, op |-> op, body |-> body, auth |-> auth,
                             stage |-> "fetch", data |-> None]}
    /\ sent' = <<Request(op, body, auth)>>
    /\ alertMsg' = Null
    /\ got' = None
    /\ ev' = "submit"
    /\ UNCHANGED <<token, inputVars, previewVars, sideVars, focus, noticeVars>>

\* if (!input) return;
analyzeAccepts(input) == input # <<>>

\* a handler that always submits the text, whatever the tab
analyzeTextOnly ==
    IF analyzeAccepts(Trim(jobText))
    THEN Start("predict", Trim(jobText), token, StepSingle, TRUE)
    ELSE Rejected

analyze ==
    LET isUrl == inputMode = "url"
        input == IF isUrl THEN Trim(urlInput) ELSE Trim(jobText)
    IN  IF analyzeAccepts(input)
        THEN Start(IF isUrl THEN "predict-url" ELSE "predict", input, token,
                   StepSingle, TRUE)
        ELSE Rejected

\* if (!csvFile || !token) return;
analyzeBulkAccepts == csvFile # Null /\ token # Null

analyzeBulk ==
    IF analyzeBulkAccepts
    THEN Start("predict-bulk", csvFile, token, StepBulk, FALSE)
    ELSE Rejected

\* an image guard that also asks for a credential
NeedsCredential == imageFile # Null /\ token # Null

\* if (!imageFile) return;
analyzeImageAccepts == imageFile # Null

analyzeImage ==
    IF analyzeImageAccepts
    THEN Start("predict-image", imageFile, token, StepImage, TRUE)
    ELSE Rejected

\* RUN ANALYSIS
ClickRunAnalysis == InputView /\ inputMode = "text" /\ ~RunAnalysisDisabled /\ analyze

\* SCAN URL
ClickScanUrl == InputView /\ inputMode = "url" /\ ~ScanUrlDisabled /\ analyze

\* onKeyDown={e => e.key === 'Enter' && analyze()} of the URL field
PressEnterUrl == InputView /\ inputMode = "url" /\ analyze

\* a batch button that is never disabled, on a handler that has no guard
ClickAnalyzeBulkUnguarded ==
    InputView /\ inputMode = "csv" /\ csvFile # Null
              /\ Start("predict-bulk", csvFile, token, StepBulk, FALSE)

\* ANALYZE <file>.CSV
ClickAnalyzeBulk == InputView /\ inputMode = "csv" /\ BulkButtonEnabled /\ analyzeBulk

\* ANALYZE <file>.CSV while the button is rendered disabled: the click is not delivered
ClickDisabledBulk ==
    InputView /\ inputMode = "csv" /\ csvFile # Null /\ ~BulkButtonEnabled /\ Rejected

\* ANALYZE SCREENSHOT
ClickAnalyzeImage == InputView /\ inputMode = "image" /\ ImageButtonEnabled /\ analyzeImage

-----------------------------------------------------------------------------
(* The progress simulator *)

\* p => { if (p >= 95) { clearInterval(scanInterval); return 95; } return p + Math.random() * k; }
tick(p, inc) == IF p >= ProgressCap THEN ProgressCap ELSE p + inc

\* The draws of Math.random() * step a behaviour explores: every one when it
\* explores the ticks, the largest otherwise.
Draws(step) == IF focus = "ticks" THEN 0 .. (step - 1) ELSE {step - 1}

\* one firing of a scanInterval
Tick(t) ==
    /\ t \in timers
    /\ \E inc \in Draws(t.step) : scanProgress' = tick(scanProgress, inc)
    /\ timers' = IF scanProgress >= ProgressCap THEN timers \ {t} ELSE timers
    /\ ev' = "tick"
    /\ Quiet
    /\ UNCHANGED <<token, inputVars, previewVars, loading, phase, result, feedbackGiven, companyVerify,
                   bulkResults, calls, sideVars, boundVars, noticeVars>>

\* clearInterval(scanInterval) of invocation c
Cleared(c) == {t \in timers : t.id # c.id}

-----------------------------------------------------------------------------
(* The responses to a classification request *)

\* What the backend can answer with a success status.  A page's company is
\* scraped, and so verified, only in the behaviours that explore side effects.
Payloads(c) ==
    IF IsBulk(c) THEN BulkPayloads
    ELSE {v \in Verdicts(c.id) : v.scraped_company = "" \/ focus = "effects"}

\* res.ok: clearInterval(scanInterval); setScanProgress(100); setTimeout(..., 600 | 400)
ClassifySuccess(c, data) ==
    /\ c \in calls /\ c.stage = "fetch"
    /\ data \in Payloads(c)
    /\ timers' = Cleared(c)
    /\ scanProgress' = ProgressDone
    /\ calls' = (calls \ {c}) \cup {[c EXCEPT !.stage = "delay", !.data = data]}
    /\ ev' = "success"
    /\ Quiet
    /\ UNCHANGED <<token, inputVars, previewVars, loading, phase, result, feedbackGiven, companyVerify,
                   bulkResults, sideVars, boundVars, noticeVars>>

\* setLoading(false); setPhase('input') of the catch blocks
Release == loading' = FALSE /\ phase' = "input"

\* a catch that issues the request again instead of giving up
ClassifyFailureRetrying(c, f) ==
    /\ c \in calls /\ c.stage = "fetch"
    /\ f \in Failures
    /\ sent' = <<Request(c.op, c.body, c.auth)>>
    /\ alertMsg' = Null
    /\ got' = None
    /\ ev' = "fail"
    /\ UNCHANGED <<token, inputVars, previewVars, sessionVars, sideVars, boundVars, noticeVars>>

\* catch (err) { clearInterval(scanInterval); setLoading(false); setPhase('input'); alert(err.message); }
ClassifyFailure(c, f) ==
    /\ c \in calls /\ c.stage = "fetch"
    /\ f \in Failures
    /\ timers' = Cleared(c)
    /\ Release
    /\ calls' = calls \ {c}
    /\ alertMsg' = FailureMessage(f, Fallback(c))
    /\ got' = f
    /\ sent' = <<>>
    /\ ev' = "fail"
    /\ UNCHANGED <<token, inputVars, previewVars, result, scanProgress, feedbackGiven, companyVerify,
                   bulkResults, sideVars, boundVars, noticeVars>>

\* verifyCompany(name) from setCompanyLoading(true) to its fetch: the request
\* joins those in flight, tagged with the submission whose verdict it is for
verifyCompanyStart(name, reqs) == Append(reqs, [name |-> name, for |-> submits])

\* the log is kept in the behaviours that explore overlapping verifications
Logged(log) == IF focus = "overlaps" THEN log ELSE verifyLog

\* the log once a request for name has been issued
Issued(name) == Logged([verifyLog EXCEPT !.last = [name |-> name, for |-> submits]])

\* if (token) fetchMyHistory();
HistoryRefresh(c) == IF c.auth # Null THEN fetchMyHistory ELSE <<>>

\* if (data.scraped_company) verifyCompany(data.scraped_company): analyze only
AutoVerifies(c) == c.op \in {"predict", "predict-url"} /\ c.data.scraped_company # ""

\* a display delay whose callback shows nothing
ShowsNothing(c) ==
    /\ c \in calls /\ c.stage = "delay"
    /\ calls' = calls \ {c}
    /\ ev' = "show"
    /\ Quiet
    /\ UNCHANGED <<token, inputVars, previewVars, loading, phase, result, scanProgress, feedbackGiven,
                   companyVerify, bulkResults, timers, sideVars, boundVars, noticeVars>>

\* the setTimeout callback of analyze, analyzeImage and analyzeBulk
ShowResult(c) ==
    /\ c \in calls /\ c.stage = "delay"
    /\ calls' = calls \ {c}
    /\ phase' = IF IsBulk(c) THEN "bulk-results" ELSE "verdict"
    /\ loading' = FALSE
    /\ IF IsBulk(c)
       THEN /\ bulkResults' = c.data
            /\ sent' = <<>>
            /\ UNCHANGED <<result, companyLoading, verifyReqs, verifyLog>>
       ELSE /\ result' = c.data
            /\ UNCHANGED bulkResults
            /\ IF AutoVerifies(c)
               THEN /\ sent' = HistoryRefresh(c) \o
                               <<Request("verify-company", c.data.scraped_company, Null)>>
                    /\ companyLoading' = TRUE
                    /\ verifyReqs' = verifyCompanyStart(c.data.scraped_company, verifyReqs)
                    /\ verifyLog' = Issued(c.data.scraped_company)
               ELSE /\ sent' = HistoryRefresh(c)
                    /\ UNCHANGED <<companyLoading, verifyReqs, verifyLog>>
    /\ historyReqs' = historyReqs + Answered(To("my-predictions", sent'))
    /\ alertMsg' = Null
    /\ got' = None
    /\ ev' = "show"
    /\ UNCHANGED <<token, inputVars, previewVars, scanProgress, feedbackGiven, companyVerify, timers,
                   feedbackReqs, myHistory, flagReqs, downloadReqs, boundVars>>

-----------------------------------------------------------------------------
(* Company verification *)

\* what the user can have typed into companyInput
CompanyNames == {"", "bolt", "acme"}

\* {!result.scraped_company && <input id="companyInput"> <button disabled={companyLoading}>}
CompanyInputRendered == VerdictView /\ result.scraped_company = ""

\* the user starts side effects in the behaviours that explore them, and
\* leaves at most MaxPending of them in flight
Room == focus = "effects" /\ Len(verifyReqs) + Len(feedbackReqs) < MaxPending

\* the user verifies one company among the other side effects, and two
\* different ones, at most MaxPending at once, in the behaviours that explore
\* overlapping verifications
VerifyRoom(name) ==
    \/ Room /\ name = "bolt"
    \/ focus = "overlaps" /\ Len(verifyReqs) < MaxPending

\* if (!name) return; setCompanyLoading(true); fetch(.../api/verify-company)
verifyCompany(name) ==
    IF name = ""
    THEN Rejected
    ELSE /\ VerifyRoom(name)
         /\ companyLoading' = TRUE
         /\ verifyReqs' = verifyCompanyStart(name, verifyReqs)
         /\ verifyLog' = Issued(name)
         /\ sent' = <<Request("verify-company", name, Null)>>
         /\ alertMsg' = Null
         /\ got' = None
         /\ ev' = "verify"
         /\ UNCHANGED <<token, inputVars, previewVars, sessionVars, feedbackReqs, boundVars, noticeVars>>

\* onKeyDown={e => { if (e.key === 'Enter') verifyCompany(e.target.value); }}
PressEnterCompany(name) == CompanyInputRendered /\ verifyCompany(name)

\* onClick: if (inp?.value) verifyCompany(inp.value)
ClickVerify(name) == CompanyInputRendered /\ ~companyLoading /\ verifyCompany(name)

Without(seq, i) == SubSeq(seq, 1, i - 1) \o SubSeq(seq, i + 1, Len(seq))

\* if (res.ok): the fetch resolved with a success status (with or without
\* the optional fields of the payload)
resOk(r) == r \in {"ok", "empty"}

\* what verify-company can answer: a payload, a non-success status, or fetch throwing
VerifyOutcomes == {"ok", "status", "throw"}

\* the backend knows the company a page names, and no other
Known(name) == name = "acme"

\* if (res.ok) setCompanyVerify(await res.json()); catch: console.error;
\* finally: setCompanyLoading(false)
VerifyResponse(i, r) ==
    /\ i \in 1 .. Len(verifyReqs)
    /\ r \in VerifyOutcomes
    /\ verifyReqs' = Without(verifyReqs, i)
    /\ companyVerify' = IF resOk(r)
                        THEN [verified |-> Known(verifyReqs[i].name), of |-> verifyReqs[i]]
                        ELSE companyVerify
    /\ companyLoading' = FALSE
    /\ verifyLog' = Logged(IF resOk(r) /\ verifyReqs[i].for = submits
                           THEN verifyLog
                           ELSE [verifyLog EXCEPT !.spoiled = submits])
    /\ ev' = IF r = "ok" THEN "verified" ELSE "verify-failed"
    /\ Quiet
    /\ UNCHANGED <<token, inputVars, previewVars, loading, phase, result, scanProgress, feedbackGiven,
                   bulkResults, calls, timers, feedbackReqs, boundVars, noticeVars>>

-----------------------------------------------------------------------------
(* Feedback *)

\* {token && (feedbackGiven ? <span> : <button AGREE> <button DISAGREE>)}
FeedbackButtonsRendered == VerdictView /\ token # Null /\ feedbackGiven = Null

\* if (!result?.prediction_id || !token) return;
submitFeedbackAccepts == result # None /\ result.prediction_id # 0 /\ token # Null

submitFeedback(feedback) ==
    IF submitFeedbackAccepts
    THEN /\ Room
         /\ feedbackReqs' = Append(feedbackReqs,
                                   [prediction_id |-> result.prediction_id,
                                    feedback |-> feedback])
         /\ sent' = <<Request("feedback", <<result.prediction_id, feedback>>, token)>>
         /\ alertMsg' = Null
         /\ got' = None
         /\ ev' = "feedback"
         /\ UNCHANGED <<token, inputVars, previewVars, sessionVars, companyLoading, verifyReqs,
                        verifyLog, boundVars, noticeVars>>
    ELSE Rejected

ClickFeedback(feedback) == FeedbackButtonsRendered /\ submitFeedback(feedback)

FeedbackOutcomes == {"ok", "status", "throw"}

\* if (res.ok) setFeedbackGiven(feedback); catch: console.error
FeedbackResponse(i, r) ==
    /\ i \in 1 .. Len(feedbackReqs)
    /\ r \in FeedbackOutcomes
    /\ feedbackReqs' = Without(feedbackReqs, i)
    /\ feedbackGiven' = IF resOk(r) THEN feedbackReqs[i].feedback ELSE feedbackGiven
    /\ ev' = IF r = "ok" THEN "acked" ELSE "feedback-failed"
    /\ Quiet
    /\ UNCHANGED <<token, inputVars, previewVars, loading, phase, result, scanProgress, companyVerify,
                   bulkResults, calls, timers, companyLoading, verifyReqs, verifyLog,
                   boundVars, noticeVars>>

-----------------------------------------------------------------------------
(* History *)

\* what my-predictions can answer: a payload with or without predictions, a
\* non-success status, or fetch throwing
HistoryOutcomes == {"ok", "empty", "status", "throw"}

\* data.predictions || []
Predictions(r) == IF r = "ok" THEN <<"p">> ELSE <<>>

\* if (res.ok) { const data = await res.json(); setMyHistory(data.predictions || []); }
\* catch: console.error
HistoryResponse(r) ==
    /\ historyReqs > 0
    /\ r \in HistoryOutcomes
    /\ historyReqs' = historyReqs - 1
    /\ myHistory' = IF resOk(r) THEN Predictions(r) ELSE myHistory
    /\ ev' = IF r \in {"ok", "empty"} THEN "history" ELSE "history-failed"
    /\ Quiet
    /\ UNCHANGED <<token, inputVars, previewVars, sessionVars, sideVars, flagReqs, downloadReqs,
                   boundVars>>

-----------------------------------------------------------------------------
(* Flagging *)

\* a flag button offered on every verdict
OfferedOnAnyVerdict == VerdictView

\* {result.prediction === 'Fake' && token && <button>FLAG FOR REVIEW</button>}
FlagButtonRendered == VerdictView /\ result.prediction = "Fake" /\ token # Null

\* the user flags in the behaviours that explore the notices, and leaves at
\* most MaxPending flag requests in flight
FlagRoom == focus = "notices" /\ Len(flagReqs) < MaxPending

\* the flag button's onClick to its await fetch(.../api/flag)
ClickFlag ==
    /\ FlagButtonRendered
    /\ FlagRoom
    /\ flagReqs' = Append(flagReqs, [prediction_id |-> result.prediction_id])
    /\ sent' = <<Request("flag", result.prediction_id, token)>>
    /\ alertMsg' = Null
    /\ got' = None
    /\ ev' = "flag"
    /\ UNCHANGED <<token, inputVars, previewVars, sessionVars, sideVars, myHistory, historyReqs,
                   downloadReqs, boundVars>>

\* what flag can answer: a success status, a non-success status, or fetch throwing
FlagOutcomes == {"ok", "status", "throw"}

\* await fetch(...) resolved: alert('Post flagged for review.');
\* catch { alert('Failed to flag.'); }
FlagNotice(r) == IF r = "throw" THEN "Failed to flag." ELSE "Post flagged for review."

\* the rest of the flag button's onClick, after the await
FlagResponse(i, r) ==
    /\ i \in 1 .. Len(flagReqs)
    /\ r \in FlagOutcomes
    /\ flagReqs' = Without(flagReqs, i)
    /\ alertMsg' = FlagNotice(r)
    /\ got' = None
    /\ sent' = <<>>
    /\ ev' = IF r = "ok" THEN "flagged" ELSE "flag-failed"
    /\ UNCHANGED <<token, inputVars, previewVars, sessionVars, sideVars, myHistory, historyReqs,
                   downloadReqs, boundVars>>

-----------------------------------------------------------------------------
(* Downloading the batch results *)

\* if (!csvFile || !token) return;
downloadBulkCsvAccepts == csvFile # Null /\ token # Null

\* the user downloads in the behaviours that explore the notices, and leaves
\* at most MaxPending flag and download requests in flight
DownloadRoom == focus = "notices" /\ Len(flagReqs) + downloadReqs < MaxPending

\* downloadBulkCsv to its await fetch(.../api/predict-bulk/download)
downloadBulkCsv ==
    IF downloadBulkCsvAccepts
    THEN /\ DownloadRoom
         /\ downloadReqs' = downloadReqs + 1
         /\ sent' = <<Request("predict-bulk/download", csvFile, token)>>
         /\ alertMsg' = Null
         /\ got' = None
         /\ ev' = "download"
         /\ UNCHANGED <<token, inputVars, previewVars, sessionVars, sideVars, myHistory, historyReqs,
                        flagReqs, boundVars>>
    ELSE Rejected

\* DOWNLOAD CSV RESULTS
ClickDownload == BulkView /\ downloadBulkCsv

\* what predict-bulk/download can answer: a success status, a non-success
\* status, or fetch throwing
DownloadOutcomes == {"ok", "status", "throw"}

\* const blob = await res.blob(); ... a.click(): whatever the status, the body
\* is saved as bulk_results.csv; catch { alert('Download failed'); }
DownloadNotice(r) == IF r = "throw" THEN "Download failed" ELSE Null

\* the rest of downloadBulkCsv, after the await
DownloadResponse(r) ==
    /\ downloadReqs > 0
    /\ r \in DownloadOutcomes
    /\ downloadReqs' = downloadReqs - 1
    /\ alertMsg' = DownloadNotice(r)
    /\ sent' = <<>>
    /\ got' = None
    /\ ev' = IF r = "ok" THEN "downloaded" ELSE "download-failed"
    /\ UNCHANGED <<token, inputVars, previewVars, sessionVars, sideVars, myHistory, historyReqs,
                   flagReqs, boundVars>>

-----------------------------------------------------------------------------
(* reset *)

\* setPhase('input'); setResult(null); setBulkResults(null); setScanProgress(0);
\* setFeedbackGiven(null); setCompanyVerify(null)
resetPayload ==
    /\ phase' = "input" /\ result' = None /\ bulkResults' = None
    /\ scanProgress' = 0 /\ feedbackGiven' = Null /\ companyVerify' = None

\* a reset that leaves the input fields as they are
KeepInputs == UNCHANGED <<jobText, urlInput, csvFile, imageFile, imagePreview>>

\* setJobText(''); setUrlInput(''); setCsvFile(null); setImageFile(null);
\* setImagePreview(null)
resetInputs ==
    /\ jobText' = <<>> /\ urlInput' = <<>> /\ csvFile' = Null /\ imageFile' = Null
    /\ imagePreview' = Null

reset ==
    /\ resetPayload
    /\ resetInputs
    /\ ev' = "reset"
    /\ Quiet
    /\ UNCHANGED <<token, inputMode, readers, loading, calls, timers, sideVars, boundVars,
                   noticeVars>>

\* ANALYZE ANOTHER / ANALYZE MORE
ClickReset == (VerdictView \/ BulkView) /\ reset

-----------------------------------------------------------------------------

Next ==
    \/ \E m \in Modes : SelectTab(m)
    \/ \E s \in Typeable : TypeText(s)
    \/ \E s \in Typeable : TypeUrl(s)
    \/ SelectCsv
    \/ SelectImage
    \/ ReaderLoad
    \/ ClickRunAnalysis
    \/ ClickScanUrl
    \/ PressEnterUrl
    \/ ClickAnalyzeBulk
    \/ ClickDisabledBulk
    \/ ClickAnalyzeImage
    \/ \E t \in timers : Tick(t)
    \/ \E c \in calls : \E data \in Payloads(c) : ClassifySuccess(c, data)
    \/ \E c \in calls : \E f \in Failures : ClassifyFailure(c, f)
    \/ \E c \in calls : ShowResult(c)
    \/ ClickReset
    \/ \E name \in CompanyNames : PressEnterCompany(name)
    \/ \E name \in CompanyNames : ClickVerify(name)
    \/ \E i \in 1 .. Len(verifyReqs) : \E r \in VerifyOutcomes : VerifyResponse(i, r)
    \/ \E feedback \in {"agree", "disagree"} : ClickFeedback(feedback)
    \/ \E i \in 1 .. Len(feedbackReqs) : \E r \in FeedbackOutcomes : FeedbackResponse(i, r)
    \/ \E r \in HistoryOutcomes : HistoryResponse(r)
    \/ ClickFlag
    \/ ClickDownload
    \/ \E r \in DownloadOutcomes : DownloadResponse(r)
    \/ \E i \in 1 .. Len(flagReqs) : \E r \in FlagOutcomes : FlagResponse(i, r)

Spec == Init /\ [][Next]_vars

\* setTimeout(..., 600 | 400): a display delay that has been started runs out
DelayFair == WF_vars(\E c \in calls : ShowResult(c))

LiveSpec == Init /\ [][Next]_vars /\ DelayFair

-----------------------------------------------------------------------------
(* Properties *)

\* the classification endpoints
ClassifyOps == {"predict", "predict-url", "predict-bulk", "predict-image"}

\* a classification request has been issued and no response has come yet
Outstanding == \E c \in calls : c.stage = "fetch"

\* C1: while a classification request is outstanding (phase scanning, no
\* response yet) the progress value is strictly below 100 and the percentage
\* shown is below 100%.  The tick adds its increment without clamping the sum,
\* so this is violated.
C1_BelowDoneWhileOutstanding ==
    (phase = "scanning" /\ Outstanding) =>
        (scanProgress < ProgressDone /\ Displayed(scanProgress) < 100)

\* C2: after any tick of the progress simulator the progress is at most 95.
\* The tick returns p + increment for every p below 95, so this is violated.
C2_TickCappedAt95 == ev = "tick" => scanProgress <= ProgressCap

C4_PhasePath ==
    [][ /\ (phase = "input" /\ phase' # "input") =>
               (phase' = "scanning" /\ ev' = "submit")
        /\ (phase = "scanning" /\ phase' # "scanning") =>
               \E c \in calls :
                   /\ c \notin calls'
                   /\ \/ ev' = "fail" /\ phase' = "input"
                      \/ /\ ev' = "show"
                         /\ c.body = (IF phase' = "bulk-results" THEN csvFile
                                      ELSE IF c.op = "predict-image" THEN imageFile
                                      ELSE c.body)
                         /\ phase' = (IF c.op = "predict-bulk" THEN "bulk-results"
                                      ELSE "verdict")
        /\ (phase \in {"verdict", "bulk-results"} /\ phase' # phase) =>
               (phase' = "input" /\ ev' = "reset") ]_vars

\* a CSV submission has just ended in the batch view
C4_BulkShown == ev = "show" /\ phase = "bulk-results" /\ inputMode = "csv"

\* C5: at most one classification invocation is unfinished, and from the
\* acceptance of a submission until the phase leaves scanning no step accepts
\* a submission or issues a classification request.
C5_SingleFlight ==
    [][ /\ Cardinality(calls') <= 1
        /\ phase = "scanning" =>
               /\ ev' # "submit"
               /\ \A i \in 1 .. Len(sent') : sent'[i].op \notin ClassifyOps ]_vars

\* the session is in the display delay with a URL in the field that Enter
\* would submit
C5_ScanningWithUrlPending ==
    /\ phase = "scanning" /\ loading
    /\ inputMode = "url" /\ Trim(urlInput) # <<>>
    /\ \E c \in calls : c.stage = "delay"

\* C6: result is set exactly in phase verdict and bulkResults exactly in
\* phase bulk-results.
C6_PayloadMatchesPhase ==
    /\ (result # None) <=> (phase = "verdict")
    /\ (bulkResults # None) <=> (phase = "bulk-results")

\* a batch report is shown in a session that showed a verdict before
C6_BulkAfterVerdict ==
    phase = "bulk-results" /\ bulkResults # None /\ result = None /\ submits > 1

\* C7: right after reset the phase is input, result and bulkResults are null,
\* the progress is 0, and feedbackGiven and companyVerify are null.
C7_ResetClears ==
    ev = "reset" =>
        /\ phase = "input" /\ result = None /\ bulkResults = None
        /\ scanProgress = 0 /\ feedbackGiven = Null /\ companyVerify = None

\* reset has run while a company verification was still in flight
C7_ResetDone == ev = "reset" /\ phase = "input" /\ verifyReqs # <<>>

\* C8: no two feedback requests are issued for one prediction.  The buttons
\* stay until the first acknowledgement, and submitFeedback has no guard on a
\* request in flight, so this is violated.
C8_OneFeedbackPerVerdict ==
    \A i, j \in 1 .. Len(feedbackReqs) :
        i # j => feedbackReqs[i].prediction_id # feedbackReqs[j].prediction_id

\* the pending input a classification request was built from
PendingOf(c) ==
    IF c.op = "predict" THEN Trim(jobText)
    ELSE IF c.op = "predict-url" THEN Trim(urlInput)
    ELSE IF c.op = "predict-bulk" THEN csvFile
    ELSE imageFile

\* C9: no step changes the pending inputs while the phase is scanning, and
\* the failure of the request returns the phase to input with loading
\* released and the pending input the request was built from still in place.
C9_FailureKeepsInput ==
    [][ /\ phase = "scanning" => UNCHANGED inputVars
        /\ ev' = "fail" =>
               /\ phase' = "input" /\ loading' = FALSE
               /\ \E c \in calls : c \notin calls' /\ PendingOf(c) = c.body ]_vars

\* a URL submission has failed and the URL is still in the field
C9_FailedUrlKept ==
    ev = "fail" /\ phase = "input" /\ ~loading /\ inputMode = "url" /\ urlInput # <<>>

\* C10: a submission in text or URL mode whose trimmed input is empty issues
\* no request, starts no timer and leaves phase, progress, result,
\* feedbackGiven and companyVerify as they were.
C10_EmptyInputRejected ==
    [][ ( /\ InputView
          /\ \/ inputMode = "text" /\ Trim(jobText) = <<>>
             \/ inputMode = "url" /\ Trim(urlInput) = <<>>
          /\ ev' \in {"submit", "reject"} ) =>
        ( /\ sent' = <<>> /\ timers' = timers /\ calls' = calls
          /\ UNCHANGED <<phase, scanProgress, result, feedbackGiven, companyVerify>> ) ]_vars

\* Enter was pressed in a URL field holding only a blank
C10_BlankUrlRejected ==
    ev = "reject" /\ phase = "input" /\ inputMode = "url" /\ urlInput = <<" ">>

\* what a step that issues no request and starts nothing leaves alone
NothingStarted ==
    /\ sent' = <<>> /\ timers' = timers /\ calls' = calls
    /\ UNCHANGED <<inputVars, loading, phase, result, scanProgress, feedbackGiven,
                   companyVerify, bulkResults, sideVars, noticeVars>>

\* C11: a batch submission is accepted exactly when a CSV file is selected
\* and a credential is present, and then issues the predict-bulk request with
\* that file and credential; otherwise the attempt issues no request, starts
\* no timer and changes no field of the session.
C11_BulkNeedsFileAndCredential ==
    [][ (InputView /\ inputMode = "csv" /\ ev' \in {"submit", "reject"}) =>
            IF csvFile # Null /\ token # Null
            THEN /\ ev' = "submit" /\ phase' = "scanning"
                 /\ sent' = <<Request("predict-bulk", csvFile, token)>>
            ELSE ev' = "reject" /\ NothingStarted ]_vars

\* the batch button was pressed with a file selected and no credential
C11_BulkWithoutCredential ==
    ev = "reject" /\ phase = "input" /\ inputMode = "csv" /\ csvFile # Null /\ token = Null

\* C12: an image submission with a file selected is accepted with or without
\* a credential: the phase becomes scanning and the predict-image request is
\* issued, carrying the credential only if there is one; with no file
\* selected nothing is issued and nothing changes.
C12_ImageNeedsOnlyFile ==
    [][ (InputView /\ inputMode = "image" /\ ev' \in {"submit", "reject"}) =>
            IF imageFile # Null
            THEN /\ ev' = "submit" /\ phase' = "scanning"
                 /\ sent' = <<Request("predict-image", imageFile, token)>>
            ELSE ev' = "reject" /\ NothingStarted ]_vars

\* an image was submitted without a credential
C12_ImageWithoutCredential ==
    /\ ev = "submit" /\ phase = "scanning" /\ token = Null
    /\ sent = <<Request("predict-image", imageFile, Null)>>

\* the display delay of a successful request is running
Delayed(cs) == \E c \in cs : c.stage = "delay"

\* C13: the success response cancels the simulator and sets the progress to
\* exactly 100 with the phase still scanning; the phase changes to verdict or
\* bulk-results only in the later step of the display delay, and the
\* progress is exactly 100 in every state from the response up to and
\* including the state in which the phase changes.
C13_DoneThenDelay ==
    [][ /\ ev' = "success" =>
               (phase' = "scanning" /\ scanProgress' = 100 /\ timers' = {} /\ Delayed(calls'))
        /\ Delayed(calls') => (phase' = "scanning" /\ scanProgress' = 100)
        /\ ev' = "show" =>
               /\ Delayed(calls) /\ phase = "scanning"
               /\ phase' \in {"verdict", "bulk-results"} /\ scanProgress' = 100 ]_vars

\* a verdict has just been shown at progress 100
C13_ShownAtDone == ev = "show" /\ phase = "verdict" /\ scanProgress = 100

\* C14: at most one tick timer is active in every state, and no timer is
\* left from an earlier submission when a submission is accepted and creates
\* its own.
C14_OneTimer ==
    [][ /\ Cardinality(timers') <= 1
        /\ ev' = "submit" => (timers = {} /\ Cardinality(timers') = 1) ]_vars

\* a second submission runs its timer after an earlier one finished
C14_SecondTimer == ev = "submit" /\ Cardinality(timers) = 1 /\ submits > 1

\* C15: outside the scanning phase no tick timer is active and no display
\* delay is pending, so a tick or a display-delay callback only ever runs in
\* the scanning phase it was created in.
C15_NoTimerOutsideScanning ==
    [][ /\ phase' # "scanning" => (timers' = {} /\ ~Delayed(calls'))
        /\ ev' \in {"tick", "show"} => (phase = "scanning" /\ Cardinality(calls) = 1) ]_vars

\* a request failed while its timer was still ticking
C15_FailedWhileTicking ==
    ev = "fail" /\ phase = "input" /\ timers = {} /\ calls = {} /\ scanProgress \in 1 .. 94

\* the invocation a step finished
Finished(c) == c \in calls /\ c \notin calls'

\* a shown verdict of one of the kinds ops that names a company is followed by
\* exactly one automatic verify-company request for that name, and nothing
\* else but the user's own verification issues one
AutoVerifyFor(ops) ==
    /\ ev' = "show" =>
           \E c \in calls :
               /\ Finished(c)
               /\ To("verify-company", sent') =
                      IF c.op \in ops /\ c.data.scraped_company # ""
                      THEN <<Request("verify-company", c.data.scraped_company, Null)>>
                      ELSE <<>>
    /\ ev' \notin {"show", "verify"} => To("verify-company", sent') = <<>>

C17_HistoryRefreshOnVerdict ==
    [][ /\ ev' = "show" =>
               \E c \in calls :
                   /\ Finished(c)
                   /\ To("my-predictions", sent') =
                          IF c.op # "predict-bulk" /\ token # Null
                          THEN <<Request("my-predictions", Null, token)>>
                          ELSE <<>>
        /\ ev' # "show" => To("my-predictions", sent') = <<>> ]_vars

\* an image verdict of a signed-in user has just refreshed the history
C17_RefreshedOnShow ==
    /\ ev = "show" /\ phase = "verdict" /\ inputMode = "image" /\ token # Null
    /\ To("my-predictions", sent) = <<Request("my-predictions", Null, token)>>

\* the steps in which a side effect failed: a non-success response or a throw
SideEffectFailures == {"verify-failed", "feedback-failed", "history-failed", "flag-failed"}

\* C18: the failure of a company verification, a history refresh, a feedback
\* submission or a flag request changes neither the phase nor result nor
\* bulkResults, and leaves companyVerify, feedbackGiven and myHistory at their
\* previous values.
C18_SideEffectFailureKeepsSession ==
    [][ ev' \in SideEffectFailures =>
            UNCHANGED <<phase, result, bulkResults, companyVerify, feedbackGiven,
                        myHistory>> ]_vars

\* a company verification failed after an earlier one had been recorded
C18_VerifyFailedAfterRecorded ==
    ev = "verify-failed" /\ phase = "verdict" /\ companyVerify # None

\* C19: a flag request is issued only from the verdict view of a Fake
\* prediction with a credential present, and a feedback request is issued
\* only with a credential present and a result that has a prediction_id.
C19_FlagAndFeedbackGated ==
    [][ /\ To("flag", sent') # <<>> =>
               /\ ev' = "flag"
               /\ phase = "verdict" /\ result # None /\ result.prediction = "Fake"
               /\ token # Null
        /\ To("feedback", sent') # <<>> =>
               (token # Null /\ result # None /\ result.prediction_id # 0) ]_vars

\* a Fake verdict has just been flagged
C19_Flagged ==
    /\ ev = "flag" /\ phase = "verdict" /\ token # Null
    /\ sent = <<Request("flag", result.prediction_id, token)>>

\* C20: when a flag request fails, by a non-success response or by a throw,
\* the notice shown is the failure notice.  The handler never looks at the
\* response's status, so a non-success response shows the success notice and
\* this is violated.
C20_FlagFailureNotice == ev = "flag-failed" => alertMsg = "Failed to flag."

\* C22: the phase leaves scanning only by the failure of the request or by
\* the deferred completion of its success; while the request is outstanding
\* every step other than its response (a tick, a late side-effect response,
\* anything the user can do) leaves the phase scanning and the request
\* outstanding, so a backend that never answers keeps the phase scanning.
C22_OnlyResponseLeavesScanning ==
    [][ phase = "scanning" =>
            /\ phase' # "scanning" => ev' \in {"fail", "show"}
            /\ (Outstanding /\ ev' \notin {"success", "fail"}) =>
                   (phase' = "scanning" /\ Outstanding' /\ loading') ]_vars

\* the simulator has run to its end and stopped, and the request is still outstanding
C22_StillScanningAfterTimerEnded ==
    phase = "scanning" /\ Outstanding /\ ev = "tick" /\ timers = {} /\ scanProgress = 95

\* C23: once the phase is verdict or bulk-results, reset moves it to input
\* and every other step (a response to a side effect, a click, a timer)
\* leaves it as it is; in particular none moves it to scanning.
C23_OnlyResetLeavesTerminal ==
    [][ (phase = "verdict" \/ phase = "bulk-results") =>
            (IF ev' = "reset" THEN phase' = "input" ELSE phase' = phase) ]_vars

\* a feedback acknowledgement arrived in the verdict view
C23_AckedInVerdict == phase = "verdict" /\ ev = "acked" /\ feedbackGiven # Null

\* C24: every accepted submission, a retry after a failure included, enters
\* scanning with progress 0, with one tick timer that did not exist before
\* and with one new outstanding request, which is the one request it issues.
C24_SubmissionStartsFresh ==
    [][ ev' = "submit" =>
            /\ phase' = "scanning" /\ scanProgress' = 0
            /\ \E t \in timers' : t \notin timers /\ timers' = {t} /\ t.id = submits'
            /\ \E c \in calls' :
                   /\ c \notin calls /\ calls' = {c} /\ c.id = submits' /\ c.stage = "fetch"
                   /\ sent' = <<Request(c.op, c.body, c.auth)>> ]_vars

\* a later submission has just started from progress 0
C24_LaterSubmissionAtZero ==
    /\ ev = "submit" /\ submits > 1 /\ phase = "scanning" /\ scanProgress = 0
    /\ \E c \in calls : c.id = submits /\ c.stage = "fetch"

\* C26: a classification request is issued only by the step that accepts a
\* submission, one request per submission, and that step is a user's action
\* in the input view with nothing in flight; the failure of a request issues
\* nothing and leaves no invocation and no timer behind.
C26_NoAutomaticRetry ==
    [][ /\ (\E i \in 1 .. Len(sent') : sent'[i].op \in ClassifyOps) =>
               (ev' = "submit" /\ Len(sent') = 1)
        /\ ev' = "submit" => (InputView /\ ~loading /\ calls = {})
        /\ ev' = "fail" => (sent' = <<>> /\ calls' = {} /\ timers' = {}) ]_vars

\* a transport failure has just been reported and nothing was issued
C26_FailedAndIdle ==
    ev = "fail" /\ sent = <<>> /\ calls = {} /\ alertMsg = "Failed to fetch"

\* C27: in the state entered by accepting a submission, result, bulkResults,
\* feedbackGiven and companyVerify are all null.  analyzeBulk clears only
\* bulkResults, so what a late verification or feedback response wrote after
\* reset survives a batch submission, and this is violated.
C27_FreshOnSubmit ==
    ev = "submit" =>
        (result = None /\ bulkResults = None /\ feedbackGiven = Null /\ companyVerify = None)

\* C28: whenever companyVerify is set the phase is verdict and the value
\* answers a request issued for the current result.  verifyCompany writes
\* its response whatever happened since the request, so a response arriving
\* after reset or after a later verdict is recorded, and this is violated.
C28_VerificationOfCurrentResult ==
    companyVerify # None => (phase = "verdict" /\ companyVerify.of.for = submits)

\* C25: when a classification request fails with a non-success response that
\* carries a detail message, the message shown to the user is exactly that
\* detail, whichever of the four requests it was.
C25_DetailShownVerbatim ==
    (ev = "fail" /\ got.kind = "status" /\ got.detail # "") => alertMsg = got.detail

\* an image submission has failed with the backend's own message
C25_ImageDetailShown ==
    /\ ev = "fail" /\ inputMode = "image" /\ imageFile # Null
    /\ got = [kind |-> "status", detail |-> "bad input"] /\ alertMsg = "bad input"

\* C21: the download issues its request exactly when a CSV file is selected
\* and a credential is present, and neither the attempt nor the arrival of
\* its response, successful or failed, changes phase, bulkResults, the
\* progress or loading.
C21_DownloadGuardAndFrame ==
    [][ /\ (BulkView /\ ev' \in {"download", "reject"}) =>
               IF csvFile # Null /\ token # Null
               THEN ev' = "download"
                    /\ sent' = <<Request("predict-bulk/download", csvFile, token)>>
               ELSE ev' = "reject" /\ sent' = <<>>
        /\ To("predict-bulk/download", sent') # <<>> => (BulkView /\ ev' = "download")
        /\ (ev' \in {"download", "downloaded", "download-failed"}
               \/ (BulkView /\ ev' = "reject")) =>
               UNCHANGED <<phase, bulkResults, scanProgress, loading>> ]_vars

\* a download has failed in transport with the report still on screen
C21_DownloadFailedOnReport ==
    /\ ev = "download-failed" /\ alertMsg = "Download failed"
    /\ phase = "bulk-results" /\ bulkResults # None /\ ~loading

\* C29: every report held in the bulk-results phase counts each of its rows
\* once: total_real + total_fake + the number of Skipped rows equals
\* total_analyzed, which equals the number of rows.
C29_ReportCountsAddUp ==
    (phase = "bulk-results" /\ bulkResults # None) =>
        /\ bulkResults.total_real + bulkResults.total_fake
              + Count(bulkResults.results, "Skipped") = bulkResults.total_analyzed
        /\ bulkResults.total_analyzed = Len(bulkResults.results)

\* a report with a skipped row among classified ones is on screen
C29_ReportWithSkippedRow ==
    /\ phase = "bulk-results" /\ bulkResults # None /\ ev = "show"
    /\ bulkResults.total_analyzed = 3 /\ bulkResults.total_fake = 2
    /\ Count(bulkResults.results, "Skipped") = 1

\* C30: for every report held with total_analyzed > 0, fraud_rate is
\* total_fake / total_analyzed * 100 rounded to one decimal place: in tenths
\* of a percent it lies within half a tenth of 1000 * total_fake /
\* total_analyzed; 23 Fake rows of 100 give 23.0.
C30_FraudRateRounded ==
    (bulkResults # None /\ bulkResults.total_analyzed > 0) =>
        /\ 2 * (bulkResults.fraud_rate * bulkResults.total_analyzed
                  - 1000 * bulkResults.total_fake) <= bulkResults.total_analyzed
        /\ 2 * (1000 * bulkResults.total_fake
                  - bulkResults.fraud_rate * bulkResults.total_analyzed)
              <= bulkResults.total_analyzed
        /\ (bulkResults.total_analyzed = 100 /\ bulkResults.total_fake = 23) =>
               bulkResults.fraud_rate = 230

\* the report of 23 Fake rows in 100 is on screen with a rate of 23.0
C30_TwentyThreeOfHundred ==
    /\ phase = "bulk-results" /\ bulkResults # None
    /\ bulkResults.total_analyzed = 100 /\ bulkResults.total_fake = 23
    /\ bulkResults.fraud_rate = 230

\* C31: the report held in the bulk-results phase is the payload of the
\* successful predict-bulk response as delivered, its rows shown in the
\* backend's order, and no step other than reset changes it.
C31_ReportHeldAsDelivered ==
    [][ /\ (ev' = "show" /\ phase' = "bulk-results") =>
               \E c \in calls : /\ c.stage = "delay" /\ c.op = "predict-bulk"
                                /\ c.data \in BulkPayloads
                                /\ bulkResults' = c.data
                                /\ RowsShown(bulkResults') = c.data.results
        /\ (phase = "bulk-results" /\ ev' # "reset") => bulkResults' = bulkResults ]_vars

\* a download was answered while the report of the three-row batch is held
C31_ReportKeptThroughDownload ==
    /\ phase = "bulk-results" /\ ev = "downloaded"
    /\ bulkResults = Aggregate(<<"Fake", "Skipped", "Fake">>)
    /\ RowsShown(bulkResults) = <<"Fake", "Skipped", "Fake">>

\* C32: reset clears the pending input of every mode: in the state reset
\* leaves, the typed text and the typed URL are empty and no CSV file, image
\* file or image preview is selected, whichever mode produced what is
\* dismissed.
C32_ResetClearsEveryInput ==
    [][ ev' = "reset" =>
            /\ jobText' = <<>> /\ urlInput' = <<>>
            /\ csvFile' = Null /\ imageFile' = Null /\ imagePreview' = Null ]_vars

\* a report of a batch has been dismissed in a behaviour where the other
\* tabs held input, and every field is empty
C32_ReportDismissed ==
    /\ ev = "reset" /\ inputMode = "csv" /\ focus = "inputs"
    /\ NothingPending /\ imagePreview = Null /\ phase = "input"

\* C33: the input mode alone decides which operation an accepted submission
\* invokes and with which input: text -> predict with the trimmed text, url
\* -> predict-url with the trimmed URL, csv -> predict-bulk with the selected
\* CSV file, image -> predict-image with the selected image file; the input
\* sent is never empty and never that of another mode.
C33_ModeDecidesRequest ==
    [][ ev' = "submit" =>
            /\ inputMode = "text" =>
                   (sent' = <<Request("predict", Trim(jobText), token)>>
                       /\ Trim(jobText) # <<>>)
            /\ inputMode = "url" =>
                   (sent' = <<Request("predict-url", Trim(urlInput), token)>>
                       /\ Trim(urlInput) # <<>>)
            /\ inputMode = "csv" =>
                   (sent' = <<Request("predict-bulk", csvFile, token)>> /\ csvFile # Null)
            /\ inputMode = "image" =>
                   (sent' = <<Request("predict-image", imageFile, token)>>
                       /\ imageFile # Null)
            /\ \E c \in calls' : c.id = submits' /\ sent' = <<Request(c.op, c.body, c.auth)>>
      ]_vars

\* a URL was submitted while the text tab, the CSV tab and the image tab all
\* held input of their own
C33_UrlSubmittedAmongOthers ==
    /\ ev = "submit" /\ inputMode = "url"
    /\ Trim(jobText) # <<>> /\ csvFile # Null /\ imageFile # Null
    /\ sent = <<Request("predict-url", <<"a">>, token)>>

\* C34: the single-flight flag mirrors the phase: loading is true exactly
\* when the phase is scanning.
C34_LoadingIffScanning == loading <=> phase = "scanning"

\* a failed submission has released the flag together with the phase
C34_ReleasedOnFailure == ev = "fail" /\ ~loading /\ phase = "input" /\ submits > 0

\* C35: within one scanning phase the progress never decreases from one
\* state to the next (tick, success signal, display delay).  A tick that
\* finds the progress above 95 returns 95, so this is violated.
C35_ProgressNeverDecreases ==
    [][ (phase = "scanning" /\ phase' = "scanning" /\ submits' = submits) =>
            scanProgress' >= scanProgress ]_vars

\* C36: feedbackGiven is scoped to the current prediction: whenever it is
\* non-null the phase is verdict, and it is only ever set by the
\* acknowledgement of a feedback request made for the prediction of the
\* result then held.  The acknowledgement is written whenever it arrives, so
\* this is violated.
C36_FeedbackOfCurrentResult ==
    [][ feedbackGiven' # Null =>
            /\ phase' = "verdict" /\ result' # None
            /\ feedbackGiven' # feedbackGiven =>
                   \E i \in 1 .. Len(feedbackReqs) :
                       /\ feedbackReqs' = Without(feedbackReqs, i)
                       /\ result # None
                       /\ feedbackReqs[i].prediction_id = result.prediction_id ]_vars

\* C38: the company-verification busy flag is accurate: companyLoading is
\* true exactly when at least one verify-company request is outstanding.
\* The first response to arrive lowers the flag whatever else is in flight,
\* so this is violated.
C38_BusyIffOutstanding == companyLoading <=> verifyReqs # <<>>

\* C37: when several company verifications are requested for the same
\* verdict and all of them have completed successfully, companyVerify holds
\* the response to the request issued last, whatever the order of arrival.
\* The response that arrives last is the one kept, so this is violated.
C37_LastIssuedWins ==
    (/\ VerdictView /\ verifyReqs = <<>>
     /\ verifyLog.last # None /\ verifyLog.last.for = submits
     /\ verifyLog.spoiled # submits) =>
        (companyVerify # None /\ companyVerify.of = verifyLog.last)

\* C39: every accepted submission whose request completes leaves scanning:
\* a failure is handled in the step that delivers it, which ends in input
\* with loading false and no timer, and a success, once its display delay
\* runs out, ends in verdict or bulk-results with loading false and no timer.
C39_CompletedSubmissionLeavesScanning ==
    /\ [][ ev' = "fail" => (phase' = "input" /\ ~loading' /\ timers' = {}) ]_vars
    /\ (phase = "scanning" /\ Delayed(calls)) ~>
           (/\ phase = "verdict" \/ phase = "bulk-results"
            /\ ~loading /\ timers = {})

\* the report of a later batch is shown once its display delay has run out
C39_LaterBatchShown ==
    /\ ev = "show" /\ phase = "bulk-results" /\ submits > 1
    /\ ~loading /\ timers = {} /\ calls = {}

====
